---- MODULE Spec2Model ----
(***************************************************************************)
(* Model of src/app.py: the image pipeline of the vision app.  One run of  *)
(* main() is a chain of steps: read the upload size, load_image,           *)
(* convert_to_cv2, the controls, process_image, the preview, the encoder,  *)
(* the size report and the download button.  Arrays are modelled by their  *)
(* shape, their channel order and the history of the lossy or resampling   *)
(* operations applied to their samples.                                    *)
(***************************************************************************)
EXTENDS Integers, Sequences, FiniteSets, TLC

VARIABLES uploaded_file, pc, original_size, image, cv2_image, params,
          processed_img, display_img, preview, buf, report, download,
          errors, stages

vars == <<uploaded_file, pc, original_size, image, cv2_image, params,
          processed_img, display_img, preview, buf, report, download,
          errors, stages>>

(* ---------------------------- bounds ---------------------------------- *)
MaxDim == 10
MaxBytes == 2
PercentStep == 95
EdgeStep == 128
PngStep == 9
JpegStep == 60

(* ----------------------- program constants ---------------------------- *)
ResizeMin == 10
ResizeMax == 200
ResizeDefault == 100
EdgeMax == 255
PngMax == 9
JpegMax == 100

TransformOptions == {"Resized", "Grayscale", "Edge Detection"}

ResizePercents ==
  {p \in ResizeMin..ResizeMax :
      \/ p \in {ResizeMin, 50, ResizeDefault, ResizeMax}
      \/ (p - ResizeMin) % PercentStep = 0}
EdgeValues == {t \in 0..EdgeMax : t % EdgeStep = 0}
PngLevels == {c \in 0..PngMax : c % PngStep = 0}
JpegQualities == {q \in 0..JpegMax : q % JpegStep = 0}

(* ------------------------------ values -------------------------------- *)
\* Python's None, for array-valued and record-valued variables.
None == [shape |-> <<>>, order |-> "None", hist |-> <<>>]
IsNone(x) == x = None

\* A numpy array: its shape, its channel order and the operations its
\* samples went through since decoding.
Array(shape, order, hist) == [shape |-> shape, order |-> order, hist |-> hist]
Height(a) == a.shape[1]
Width(a) == a.shape[2]
Channels(a) == IF Len(a.shape) = 2 THEN 1 ELSE a.shape[3]
MkShape(h, w, c) == IF c = 1 THEN <<h, w>> ELSE <<h, w, c>>

\* (mutant) rounds to the nearest integer instead of truncating.
IntScaleRound(x, p) == (x * p + 50) \div 100

\* Python's int(x * p / 100) for non-negative x and p: true division
\* followed by truncation toward zero.
IntScale(x, p) == (x * p) \div 100

\* PIL modes of the JPEG/PNG family and their band counts.
Modes == {"1", "L", "P", "LA", "RGB", "RGBA", "CMYK"}
Bands(mode) ==
  CASE mode \in {"1", "L", "P"} -> 1
    [] mode = "LA" -> 2
    [] mode = "RGB" -> 3
    [] mode \in {"RGBA", "CMYK"} -> 4

\* The uploaded file: nothing, or a byte buffer.  An empty buffer holds no
\* image header, so it is never decodable.
NoFile == [size |-> 0, content |-> "none", mode |-> "RGB", width |-> 1, height |-> 1]
Uploads ==
  {NoFile}
  \cup {[size |-> n, content |-> "garbage", mode |-> "RGB", width |-> 1, height |-> 1] :
          n \in 0..MaxBytes}
  \cup [size : 1..MaxBytes, content : {"truncated", "image"}, mode : Modes,
        width : 1..MaxDim, height : 1..MaxDim]

NoParams == [resize_percent |-> ResizeDefault, edge_low |-> 0, edge_high |-> 0,
             compression_quality |-> 0, jpeg_quality |-> 0,
             transform_option |-> "none"]
NoBuf == [format |-> "none", param |-> "none", level |-> 0, pixels |-> None, len |-> 0]
NoReport == [processed_size |-> 0, num |-> 0, den |-> 0, made |-> FALSE]
NoDownload == [data |-> NoBuf, file_name |-> <<>>, mime |-> "none"]
NoImage == [mode |-> "none", width |-> 0, height |-> 0, complete |-> FALSE]

(* --------------------------- PIL and numpy ---------------------------- *)
\* (mutant) every stream is taken for an image.
Image_open_okAny(f) == TRUE

\* Image.open: reads the header only; raises on a stream without one.
Image_open_ok(f) == f.content \in {"truncated", "image"}
Image_open(f) ==
  [mode |-> f.mode, width |-> f.width, height |-> f.height,
   complete |-> f.content = "image"]

load_image(image_file) ==
  IF Image_open_ok(image_file)
  THEN [value |-> Image_open(image_file), error |-> <<>>]
  ELSE [value |-> NoImage, error |-> <<"Error loading image">>]

\* np.array(pil_img): decodes the pixel data; raises on truncated data.
np_array_ok(img) == img.complete
np_array(img) ==
  Array(MkShape(img.height, img.width, Bands(img.mode)),
        IF Bands(img.mode) >= 3 THEN "RGB" ELSE "GRAY", <<>>)

(* ------------------------------ OpenCV -------------------------------- *)
Swapped(order) ==
  CASE order = "RGB" -> "BGR"
    [] order = "BGR" -> "RGB"
    [] OTHER -> order

\* (mutant) the channel count of the source is not checked.
cvtColor_okAnyChannels(src, code) ==
  /\ ~IsNone(src)
  /\ Height(src) > 0 /\ Width(src) > 0

\* cv2.cvtColor: every code used here needs a non-empty 3- or 4-channel
\* source and raises otherwise.
cvtColor_ok(src, code) ==
  /\ ~IsNone(src)
  /\ Len(src.shape) = 3
  /\ Height(src) > 0 /\ Width(src) > 0
  /\ Channels(src) \in {3, 4}
cvtColor(src, code) ==
  CASE code = "COLOR_RGBA2RGB" ->
         Array(<<Height(src), Width(src), 3>>, src.order, src.hist)
    [] code \in {"COLOR_RGB2BGR", "COLOR_BGR2RGB"} ->
         Array(<<Height(src), Width(src), 3>>, Swapped(src.order), src.hist)
    [] code = "COLOR_BGR2GRAY" ->
         Array(<<Height(src), Width(src)>>, "GRAY", Append(src.hist, <<"gray", 0, 0>>))

\* (mutant) an empty target size is let through.
resize_okNoDsize(src, width, height) ==
  /\ ~IsNone(src)
  /\ Len(src.shape) \in {2, 3}
  /\ Height(src) > 0 /\ Width(src) > 0

\* cv2.resize with dsize = (width, height) and fx = fy = 0: raises when the
\* source is empty or either target dimension is not positive.
resize_ok(src, width, height) ==
  /\ ~IsNone(src)
  /\ Len(src.shape) \in {2, 3}
  /\ Height(src) > 0 /\ Width(src) > 0
  /\ width > 0 /\ height > 0
resize(src, width, height) ==
  Array(MkShape(height, width, Channels(src)), src.order,
        Append(src.hist, <<"area", width, height>>))

\* cv2.imencode('.jpg', ...) then cv2.imdecode(..., IMREAD_COLOR): a lossy
\* round trip that keeps the dimensions and returns three channels.
imencode_jpg(img, quality) ==
  [format |-> "JPEG", param |-> "quality", level |-> quality, pixels |-> img, len |-> 1]
imdecode_color(encoded) ==
  Array(<<Height(encoded.pixels), Width(encoded.pixels), 3>>,
        IF Channels(encoded.pixels) = 1 THEN "BGR" ELSE encoded.pixels.order,
        Append(encoded.pixels.hist, <<"jpeg", encoded.level, 0>>))

\* (mutant) a blur without border handling loses kernel - 1 samples per axis.
GaussianBlurValid(src) ==
  Array(<<Height(src) - 4, Width(src) - 4>>, src.order,
        Append(src.hist, <<"blur", 5, 5>>))

\* cv2.GaussianBlur with a 5x5 kernel: same shape as the source.
GaussianBlur(src) == Array(src.shape, src.order, Append(src.hist, <<"blur", 5, 5>>))

\* cv2.Canny swaps the thresholds when low > high.
Canny(src, threshold1, threshold2) ==
  Array(src.shape, src.order,
        Append(src.hist,
               IF threshold1 > threshold2
               THEN <<"canny", threshold2, threshold1>>
               ELSE <<"canny", threshold1, threshold2>>))

(* ------------------------- pipeline functions ------------------------- *)
Result(value, error) == [value |-> value, error |-> error]

convert_to_cv2(pil_img) ==
  IF ~np_array_ok(pil_img)
  THEN Result(None, <<"Error converting image">>)
  ELSE LET numpy_img == np_array(pil_img)
           flat == IF Len(numpy_img.shape) = 3 /\ numpy_img.shape[3] = 4
                   THEN cvtColor(numpy_img, "COLOR_RGBA2RGB")
                   ELSE numpy_img
       IN IF cvtColor_ok(flat, "COLOR_RGB2BGR")
          THEN Result(cvtColor(flat, "COLOR_RGB2BGR"), <<>>)
          ELSE Result(None, <<"Error converting image">>)

Processed(processed, display) ==
  [processed |-> processed, display |-> display, error |-> <<>>]
ProcessFailed ==
  [processed |-> None, display |-> None, error |-> <<"Error processing image">>]
ProcessNothing == [processed |-> None, display |-> None, error |-> <<>>]

\* (mutant) the resized array is returned without the JPEG round trip.
resize_branchNoJpeg(cv2_img, resize_percent, jpeg_quality) ==
  IF IsNone(cv2_img) \/ Len(cv2_img.shape) < 2
  THEN ProcessFailed
  ELSE LET width == IntScale(cv2_img.shape[2], resize_percent)
           height == IntScale(cv2_img.shape[1], resize_percent)
       IN IF ~resize_ok(cv2_img, width, height)
          THEN ProcessFailed
          ELSE LET processed == resize(cv2_img, width, height)
               IN Processed(processed, cvtColor(processed, "COLOR_BGR2RGB"))

\* The "Resized" branch with resize_percent != 100: resample, then the JPEG
\* round trip at jpeg_quality.
resize_branch(cv2_img, resize_percent, jpeg_quality) ==
  IF IsNone(cv2_img) \/ Len(cv2_img.shape) < 2
  THEN ProcessFailed
  ELSE LET width == IntScale(cv2_img.shape[2], resize_percent)
           height == IntScale(cv2_img.shape[1], resize_percent)
       IN IF ~resize_ok(cv2_img, width, height)
          THEN ProcessFailed
          ELSE LET resized == resize(cv2_img, width, height)
                   encoded == imencode_jpg(resized, jpeg_quality)
                   processed == imdecode_color(encoded)
               IN Processed(processed, cvtColor(processed, "COLOR_BGR2RGB"))

\* (mutant) 100 percent is resampled and recompressed like any other value.
resize_appliesAlways(resize_percent) == TRUE

\* Whether the "Resized" branch resamples and recompresses.
resize_applies(resize_percent) == resize_percent # 100

\* (mutant) an option that is not known hands the input back.
unknown_optionPassThrough(cv2_img) == Processed(cv2_img, cv2_img)

\* The fall-through of process_image: no array for an option it does not know.
unknown_option(cv2_img) == ProcessNothing

process_image(cv2_img, transform_option, resize_percent, edge_low, edge_high, compression_quality, jpeg_quality) ==
  CASE transform_option = "Resized" ->
         IF resize_applies(resize_percent)
         THEN resize_branch(cv2_img, resize_percent, jpeg_quality)
         ELSE IF cvtColor_ok(cv2_img, "COLOR_BGR2RGB")
              THEN Processed(cv2_img, cvtColor(cv2_img, "COLOR_BGR2RGB"))
              ELSE ProcessFailed
    [] transform_option = "Grayscale" ->
         IF cvtColor_ok(cv2_img, "COLOR_BGR2GRAY")
         THEN LET processed == cvtColor(cv2_img, "COLOR_BGR2GRAY")
              IN Processed(processed, processed)
         ELSE ProcessFailed
    [] transform_option = "Edge Detection" ->
         IF cvtColor_ok(cv2_img, "COLOR_BGR2GRAY")
         THEN LET gray == cvtColor(cv2_img, "COLOR_BGR2GRAY")
                  blurred == GaussianBlur(gray)
                  processed == Canny(blurred, edge_low, edge_high)
              IN Processed(processed, processed)
         ELSE ProcessFailed
    [] OTHER -> unknown_option(cv2_img)

\* str.lower() on a string held as a sequence of one-character strings.
UpperLetters == <<"A","B","C","D","E","F","G","H","I","J","K","L","M",
                  "N","O","P","Q","R","S","T","U","V","W","X","Y","Z">>
LowerLetters == <<"a","b","c","d","e","f","g","h","i","j","k","l","m",
                  "n","o","p","q","r","s","t","u","v","w","x","y","z">>
LowerChar(c) ==
  IF \E i \in 1..Len(UpperLetters) : UpperLetters[i] = c
  THEN LowerLetters[CHOOSE i \in 1..Len(UpperLetters) : UpperLetters[i] = c]
  ELSE c
lower(s) == [i \in 1..Len(s) |-> LowerChar(s[i])]

\* The characters of each option of the selectbox.
OptionChars ==
  ("Resized" :> <<"R","e","s","i","z","e","d">>)
  @@ ("Grayscale" :> <<"G","r","a","y","s","c","a","l","e">>)
  @@ ("Edge Detection" :> <<"E","d","g","e"," ","D","e","t","e","c","t","i","o","n">>)

\* (mutant) the suffix follows the encoded format.
file_suffixByFormat(encoded) ==
  IF encoded.format = "PNG" THEN <<".","p","n","g">> ELSE <<".","j","p","g">>

file_suffix(encoded) == <<".","j","p","g">>
file_mime(encoded) == "image/jpeg"
file_name(transform_option, encoded) ==
  <<"p","r","o","c","e","s","s","e","d","_">>
    \o lower(OptionChars[transform_option]) \o file_suffix(encoded)

\* (mutant) the PNG branch is given the JPEG quality as its level.
save_imageOneQuality(img, compression_quality, jpeg_quality, n) ==
  IF Len(img.shape) = 2
  THEN [format |-> "PNG", param |-> "compression_level",
        level |-> jpeg_quality, pixels |-> img, len |-> n]
  ELSE [format |-> "JPEG", param |-> "quality", level |-> jpeg_quality,
        pixels |-> cvtColor(img, "COLOR_BGR2RGB"), len |-> n]

\* Image.fromarray(...).save(buf, ...): PNG for a 2-D array, JPEG (of the
\* array swapped to RGB order) otherwise.  n is the encoded length.
save_image(img, compression_quality, jpeg_quality, n) ==
  IF Len(img.shape) = 2
  THEN [format |-> "PNG", param |-> "compression_level",
        level |-> compression_quality, pixels |-> img, len |-> n]
  ELSE [format |-> "JPEG", param |-> "quality", level |-> jpeg_quality,
        pixels |-> cvtColor(img, "COLOR_BGR2RGB"), len |-> n]

get_file_size(b) == b.len

(* ------------------------------- main() ------------------------------- *)
ParamChoices ==
  [resize_percent : ResizePercents, edge_low : EdgeValues, edge_high : EdgeValues,
   compression_quality : PngLevels, jpeg_quality : JpegQualities,
   transform_option : TransformOptions]

Init ==
  /\ uploaded_file \in Uploads
  /\ pc = "start"
  /\ original_size = 0
  /\ image = NoImage
  /\ cv2_image = None
  /\ params = NoParams
  /\ processed_img = None
  /\ display_img = None
  /\ preview = None
  /\ buf = NoBuf
  /\ report = NoReport
  /\ download = NoDownload
  /\ errors = <<>>
  /\ stages = <<>>

\* Lines 73-76: nothing happens without an upload; otherwise the size of the
\* upload is read.  The code divides the byte count by 1024*1024; the model
\* keeps the count in bytes, which leaves the zero test and the ratio alone.
ReadSize ==
  /\ pc = "start"
  /\ IF uploaded_file = NoFile
     THEN /\ pc' = "done"
          /\ UNCHANGED <<original_size, stages>>
     ELSE /\ original_size' = uploaded_file.size
          /\ stages' = Append(stages, "size")
          /\ pc' = "load"
  /\ UNCHANGED <<uploaded_file, image, cv2_image, params, processed_img,
                 display_img, preview, buf, report, download, errors>>

\* Lines 79-80.
LoadImage ==
  /\ pc = "load"
  /\ LET r == load_image(uploaded_file)
     IN /\ image' = r.value
        /\ errors' = errors \o r.error
        /\ pc' = IF r.value # NoImage THEN "convert" ELSE "done"
  /\ stages' = Append(stages, "load")
  /\ UNCHANGED <<uploaded_file, original_size, cv2_image, params, processed_img,
                 display_img, preview, buf, report, download>>

\* Lines 81-82.
ConvertToCv2 ==
  /\ pc = "convert"
  /\ LET r == convert_to_cv2(image)
     IN /\ cv2_image' = r.value
        /\ errors' = errors \o r.error
        /\ pc' = IF ~IsNone(r.value) THEN "controls" ELSE "done"
  /\ stages' = Append(stages, "convert")
  /\ UNCHANGED <<uploaded_file, original_size, image, params, processed_img,
                 display_img, preview, buf, report, download>>

\* Lines 83-105: the original is shown and the sliders and the selectbox
\* give the parameters of the run.
Controls ==
  /\ pc = "controls"
  /\ params' \in ParamChoices
  /\ stages' = Append(stages, "controls")
  /\ pc' = "process"
  /\ UNCHANGED <<uploaded_file, original_size, image, cv2_image, processed_img,
                 display_img, preview, buf, report, download, errors>>

\* Lines 107-117.
ProcessImage ==
  /\ pc = "process"
  /\ LET r == process_image(cv2_image, params.transform_option,
                            params.resize_percent, params.edge_low,
                            params.edge_high, params.compression_quality,
                            params.jpeg_quality)
     IN /\ processed_img' = r.processed
        /\ display_img' = r.display
        /\ errors' = errors \o r.error
        /\ pc' = IF ~IsNone(r.processed) THEN "preview" ELSE "done"
  /\ stages' = Append(stages, "transform")
  /\ UNCHANGED <<uploaded_file, original_size, image, cv2_image, params,
                 preview, buf, report, download>>

\* Lines 118-119.
Preview ==
  /\ pc = "preview"
  /\ preview' = display_img
  /\ stages' = Append(stages, "preview")
  /\ pc' = "encode"
  /\ UNCHANGED <<uploaded_file, original_size, image, cv2_image, params,
                 processed_img, display_img, buf, report, download, errors>>

\* Lines 122-137.  The encoded length is the encoder's; any positive length
\* within the bound can come out.
Encode ==
  /\ pc = "encode"
  /\ \E n \in 1..MaxBytes :
       buf' = save_image(processed_img, params.compression_quality,
                         params.jpeg_quality, n)
  /\ stages' = Append(stages, "encode")
  /\ pc' = "report"
  /\ UNCHANGED <<uploaded_file, original_size, image, cv2_image, params,
                 processed_img, display_img, preview, report, download, errors>>

\* Lines 140-142: the reduction is (original_size - processed_size) /
\* original_size * 100, kept as the fraction num/den.  The division is not
\* guarded: a zero original_size raises ZeroDivisionError out of main().
SizeReport ==
  /\ pc = "report"
  /\ LET processed_size == get_file_size(buf)
     IN IF original_size = 0
        THEN /\ report' = [NoReport EXCEPT !.processed_size = processed_size]
             /\ errors' = Append(errors, "ZeroDivisionError")
             /\ pc' = "crashed"
        ELSE /\ report' = [processed_size |-> processed_size,
                           num |-> (original_size - processed_size) * 100,
                           den |-> original_size, made |-> TRUE]
             /\ errors' = errors
             /\ pc' = "download"
  /\ stages' = Append(stages, "report")
  /\ UNCHANGED <<uploaded_file, original_size, image, cv2_image, params,
                 processed_img, display_img, preview, buf, download>>

\* Lines 144-149.
Download ==
  /\ pc = "download"
  /\ download' = [data |-> buf,
                  file_name |-> file_name(params.transform_option, buf),
                  mime |-> file_mime(buf)]
  /\ stages' = Append(stages, "download")
  /\ pc' = "done"
  /\ UNCHANGED <<uploaded_file, original_size, image, cv2_image, params,
                 processed_img, display_img, preview, buf, report, errors>>

Next ==
  \/ ReadSize
  \/ LoadImage
  \/ ConvertToCv2
  \/ Controls
  \/ ProcessImage
  \/ Preview
  \/ Encode
  \/ SizeReport
  \/ Download

Spec == Init /\ [][Next]_vars

(* ------------------- process_image called on its own ------------------ *)
\* Arguments beyond what main() passes: no array, a 2-D array, and a
\* transform option the selectbox does not offer.
DirectBitmaps ==
  {None}
  \cup {Array(MkShape(h, w, c), IF c = 1 THEN "GRAY" ELSE "BGR", <<>>) :
          h \in 1..MaxDim, w \in 1..MaxDim, c \in {1, 3}}
DirectParams ==
  [resize_percent : ResizePercents, edge_low : EdgeValues, edge_high : EdgeValues,
   compression_quality : PngLevels, jpeg_quality : JpegQualities,
   transform_option : TransformOptions \cup {"Sepia"}]

InitDirect ==
  /\ uploaded_file = NoFile
  /\ pc = "call"
  /\ original_size = 0
  /\ image = NoImage
  /\ cv2_image \in DirectBitmaps
  /\ params \in DirectParams
  /\ processed_img = None
  /\ display_img = None
  /\ preview = None
  /\ buf = NoBuf
  /\ report = NoReport
  /\ download = NoDownload
  /\ errors = <<>>
  /\ stages = <<>>

ApplyDirect ==
  /\ pc = "call"
  /\ LET r == process_image(cv2_image, params.transform_option,
                            params.resize_percent, params.edge_low,
                            params.edge_high, params.compression_quality,
                            params.jpeg_quality)
     IN /\ processed_img' = r.processed
        /\ display_img' = r.display
        /\ errors' = errors \o r.error
  /\ pc' = "returned"
  /\ UNCHANGED <<uploaded_file, original_size, image, cv2_image, params,
                 preview, buf, report, download, stages>>

InitApply == Init \/ InitDirect
NextApply == Next \/ ApplyDirect
SpecApply == InitApply /\ [][NextApply]_vars

(* ----------------------------- properties ----------------------------- *)
Did(stage) == \E i \in 1..Len(stages) : stages[i] = stage
IsPrefix(s, t) == Len(s) <= Len(t) /\ \A i \in 1..Len(s) : s[i] = t[i]
StageOrder == <<"size", "load", "convert", "controls", "transform", "preview",
                "encode", "report", "download">>
Resizing == Did("transform") /\ params.transform_option = "Resized"
\* d is floor(x * p / 100).
IsFloorScaled(d, x, p) == 100 * d <= x * p /\ x * p < 100 * (d + 1)
NothingAfterTransform ==
  /\ preview = None /\ buf = NoBuf /\ report = NoReport /\ download = NoDownload
  /\ ~Did("preview") /\ ~Did("encode") /\ ~Did("report") /\ ~Did("download")
NothingAfterDecode ==
  /\ params = NoParams /\ processed_img = None /\ display_img = None
  /\ ~Did("controls") /\ ~Did("transform")
  /\ NothingAfterTransform

\* C1: a Resize run that produces an output returns an array of height
\* floor(H*p/100) and width floor(W*p/100), each axis on its own; p = 100
\* gives H and W, p = 50 gives floor(H/2) and floor(W/2).
C1_ResizeDimensions ==
  (Resizing /\ ~IsNone(processed_img)) =>
     /\ IsFloorScaled(Height(processed_img), Height(cv2_image), params.resize_percent)
     /\ IsFloorScaled(Width(processed_img), Width(cv2_image), params.resize_percent)
     /\ Height(display_img) = Height(processed_img)
     /\ Width(display_img) = Width(processed_img)
     /\ params.resize_percent = 100 =>
          /\ Height(processed_img) = Height(cv2_image)
          /\ Width(processed_img) = Width(cv2_image)
     /\ params.resize_percent = 50 =>
          /\ 2 * Height(processed_img) \in {Height(cv2_image), Height(cv2_image) - 1}
          /\ 2 * Width(processed_img) \in {Width(cv2_image), Width(cv2_image) - 1}

C1_Witness ==
  /\ Resizing /\ ~IsNone(processed_img)
  /\ params.resize_percent = 50
  /\ Height(cv2_image) = 9 /\ Height(processed_img) = 4
  /\ Width(cv2_image) = 6 /\ Width(processed_img) = 3

\* C2: Resize at resizePercent 100 returns the input array itself (same shape,
\* same samples), whatever the other parameters.
C2_ResizeIdentity ==
  (Resizing /\ params.resize_percent = 100) =>
     /\ ~IsNone(processed_img)
     /\ processed_img = cv2_image

C2_Witness ==
  /\ Resizing /\ params.resize_percent = 100
  /\ params.jpeg_quality # 0
  /\ processed_img = cv2_image /\ ~IsNone(cv2_image)

\* C3 as stated: in every Resize run that produces an output, 100 percent
\* included, the array handed on has passed the JPEG round trip at jpeg_quality.
QualityPassed(a, q) ==
  /\ Len(a.hist) > 0
  /\ a.hist[Len(a.hist)] = <<"jpeg", q, 0>>
C3_Original ==
  (Resizing /\ ~IsNone(processed_img)) =>
     QualityPassed(processed_img, params.jpeg_quality)

\* C3 amended: in a Resize run that produces an output with resizePercent
\* other than 100, the array shown and encoded was resampled and then passed
\* through the JPEG round trip at jpeg_quality, in that order and before the
\* final encode; at resizePercent 100 neither step is applied.
ResizeHistory(a) ==
  IF params.resize_percent # 100
  THEN a.hist = << <<"area", Width(a), Height(a)>>, <<"jpeg", params.jpeg_quality, 0>> >>
  ELSE a.hist = <<>>
C3_QualityPass ==
  (Resizing /\ ~IsNone(processed_img)) =>
     /\ ResizeHistory(processed_img)
     /\ ResizeHistory(display_img)
     /\ Did("preview") => preview = display_img
     /\ Did("encode") => ResizeHistory(buf.pixels)
     /\ Did("encode") => IsPrefix(<<"size", "load", "convert", "controls",
                                     "transform", "preview", "encode">>, stages)

C3_Witness ==
  /\ Resizing /\ params.resize_percent = 200 /\ params.jpeg_quality # 0
  /\ Did("encode")
  /\ QualityPassed(buf.pixels, params.jpeg_quality)

\* C4: the encoder goes by the channel count alone: one channel is PNG at
\* compression_quality, three channels are JPEG at jpeg_quality of the array
\* in RGB order; the JPEG quality takes no part in a PNG artifact and the PNG
\* level none in a JPEG artifact.
HistHas(a, op) == \E i \in 1..Len(a.hist) : a.hist[i][1] = op
SentinelReported == report.made /\ report.den = 0
C5_Original ==
  (uploaded_file # NoFile /\ uploaded_file.size = 0 /\ pc \in {"done", "crashed"}) =>
     /\ pc # "crashed"
     /\ SentinelReported

\* C5 amended: a run on an empty upload raises no division by zero, because
\* load_image fails on it: the run reports "Error loading image" and stops
\* there, and no size report, sentinel or other, is produced.
C5_EmptyUpload ==
  (uploaded_file # NoFile /\ uploaded_file.size = 0) =>
     /\ pc # "crashed"
     /\ \A i \in 1..Len(errors) : errors[i] # "ZeroDivisionError"
     /\ report = NoReport
     /\ ~Did("convert") /\ ~Did("report")
     /\ Did("load") => (pc = "done" /\ errors = <<"Error loading image">>)

C5_Witness ==
  /\ uploaded_file # NoFile /\ uploaded_file.size = 0
  /\ original_size = 0
  /\ Did("load") /\ pc = "done"

\* C6: a failure stops the run where it happens: nothing follows a failed
\* decode, a failed transform or an unknown transform option yields no array
\* at all and nothing follows it, and the stages of a run occur in the order
\* decode, transform, encode, size report, download.
C6_FailureHalts ==
  /\ IsPrefix(stages, StageOrder)
  /\ (Did("load") /\ image = NoImage) =>
        /\ pc = "done" /\ errors = <<"Error loading image">>
        /\ cv2_image = None /\ ~Did("convert") /\ NothingAfterDecode
  /\ (Did("convert") /\ IsNone(cv2_image)) =>
        /\ pc = "done" /\ errors = <<"Error converting image">>
        /\ NothingAfterDecode
  /\ (Did("transform") /\ IsNone(processed_img)) =>
        /\ pc = "done" /\ errors = <<"Error processing image">>
        /\ IsNone(display_img) /\ NothingAfterTransform
  /\ IsNone(processed_img) <=> IsNone(display_img)
  /\ Did("preview") => ~IsNone(processed_img)
  /\ pc = "returned" =>
        /\ params.transform_option \notin TransformOptions =>
              (IsNone(processed_img) /\ IsNone(display_img))
        /\ errors # <<>> => (IsNone(processed_img) /\ IsNone(display_img))
        /\ NothingAfterTransform

C6_Witness ==
  /\ Did("transform") /\ IsNone(processed_img) /\ IsNone(display_img)
  /\ pc = "done" /\ errors = <<"Error processing image">>

\* C7: a Grayscale run and an EdgeDetect run return a single-channel array of
\* the input's height and width, whatever the other parameters and whatever
\* the order of the two edge thresholds.
C7_SingleChannelSameSize ==
  (Did("transform") /\ params.transform_option \in {"Grayscale", "Edge Detection"}) =>
     /\ ~IsNone(processed_img)
     /\ errors = <<>>
     /\ Len(processed_img.shape) = 2
     /\ Channels(processed_img) = 1
     /\ Height(processed_img) = Height(cv2_image)
     /\ Width(processed_img) = Width(cv2_image)
     /\ display_img = processed_img

C7_Witness ==
  /\ Did("transform") /\ params.transform_option = "Edge Detection"
  /\ params.edge_low > params.edge_high
  /\ processed_img.shape = <<3, 7>> /\ cv2_image.shape = <<3, 7, 3>>

\* C8: every download is named processed_<option in lowercase>.jpg with mime
\* image/jpeg, PNG-encoded Grayscale and EdgeDetect artifacts included.
LowerNames ==
  ("Resized" :> <<"r","e","s","i","z","e","d">>)
  @@ ("Grayscale" :> <<"g","r","a","y","s","c","a","l","e">>)
  @@ ("Edge Detection" :> <<"e","d","g","e"," ","d","e","t","e","c","t","i","o","n">>)
C8_DownloadName ==
  Did("download") =>
     /\ download.file_name =
          <<"p","r","o","c","e","s","s","e","d","_">>
            \o LowerNames[params.transform_option] \o <<".","j","p","g">>
     /\ download.mime = "image/jpeg"
     /\ download.data = buf

C8_Witness ==
  /\ Did("download") /\ download.data.format = "PNG"
  /\ params.transform_option = "Edge Detection"
  /\ download.mime = "image/jpeg"

\* C9: every array that reaches the transform has three channels: four
\* channels lose the fourth, any other count than 3 or 4 makes convert_to_cv2
\* report an error and return nothing; so an artifact is JPEG exactly for
\* Resize and PNG exactly for Grayscale and EdgeDetect.
C9_ThreeChannels ==
  /\ Did("convert") =>
        IF Bands(image.mode) \in {3, 4} /\ image.complete
        THEN /\ cv2_image.shape = <<image.height, image.width, 3>>
             /\ cv2_image.order = "BGR"
        ELSE /\ IsNone(cv2_image) /\ pc = "done"
             /\ errors = <<"Error converting image">>
  /\ Did("transform") => (Len(cv2_image.shape) = 3 /\ Channels(cv2_image) = 3)
  /\ Did("encode") =>
        /\ buf.format = "JPEG" <=> params.transform_option = "Resized"
        /\ buf.format = "PNG" <=>
              params.transform_option \in {"Grayscale", "Edge Detection"}

C9_Witness ==
  /\ Did("encode") /\ image.mode = "RGBA"
  /\ cv2_image.shape = <<image.height, image.width, 3>>
  /\ buf.format = "PNG"

\* C10: every array the transform returns has positive height and width; a
\* Resize whose scaled height or width is 0 returns nothing and reports an
\* error, and no empty array reaches the preview, the encoder or the report.
C10_PositiveSize ==
  /\ ~IsNone(processed_img) =>
        /\ Height(processed_img) > 0 /\ Width(processed_img) > 0
        /\ Height(display_img) > 0 /\ Width(display_img) > 0
  /\ Did("preview") => (Height(preview) > 0 /\ Width(preview) > 0)
  /\ Did("encode") => (Height(buf.pixels) > 0 /\ Width(buf.pixels) > 0)
  /\ (Resizing /\ (Height(cv2_image) * params.resize_percent < 100
                   \/ Width(cv2_image) * params.resize_percent < 100)) =>
        /\ IsNone(processed_img) /\ IsNone(display_img)
        /\ errors = <<"Error processing image">>
        /\ pc = "done" /\ NothingAfterTransform

C10_Witness ==
  /\ Resizing /\ params.resize_percent = 10
  /\ Height(cv2_image) = 9 /\ Width(cv2_image) = 10
  /\ IsNone(processed_img) /\ pc = "done"

====
